---- MODULE Spec2Model ----
(***************************************************************************)
(* A model of AIKA (src/aika.py): the block segmenter                      *)
(* (_split_text_into_blocks), the tool dispatch (run_tool_call with the    *)
(* tools web_search, fetch_url, create_file and the source collector       *)
(* _add_source) and the agent loop of main().                              *)
(*                                                                         *)
(* Strings are sequences of tokens: a token is a piece of text that the    *)
(* code never looks inside (a word, a marker, one bracket, one run of      *)
(* whitespace, a line break).  A text handed to the segmenter is the       *)
(* sequence of its lines, each line a sequence of tokens.                  *)
(***************************************************************************)
EXTENDS Integers, Sequences, FiniteSets, TLC

\* ------------------------------------------------------------------------
\* Strings
\* ------------------------------------------------------------------------
WS == " "
NL == "\n"
BEGIN_CODE == "BEGIN CODE"
END_CODE == "END CODE"
LPAREN == "("
RPAREN == ")"
TEXT_LANG == <<"text">>

RECURSIVE lstrip(_)
lstrip(s) == IF s # <<>> /\ Head(s) = WS THEN lstrip(Tail(s)) ELSE s

RECURSIVE rstrip(_)
rstrip(s) ==
    IF s # <<>> /\ s[Len(s)] = WS THEN rstrip(SubSeq(s, 1, Len(s) - 1)) ELSE s

strip(s) == rstrip(lstrip(s))

Contains(s, tok) == \E i \in 1..Len(s) : s[i] = tok

FirstIndex(s, tok) == CHOOSE i \in 1..Len(s) : s[i] = tok /\ \A j \in 1..(i - 1) : s[j] # tok

\* s.split(tok, 1)[1], for a string that holds tok
AfterFirst(s, tok) == SubSeq(s, FirstIndex(s, tok) + 1, Len(s))

\* s.split(tok, 1)[0]
BeforeFirst(s, tok) == IF Contains(s, tok) THEN SubSeq(s, 1, FirstIndex(s, tok) - 1) ELSE s

startswith(s, tok) == s # <<>> /\ Head(s) = tok

\* "\n".join(lines)
RECURSIVE Join(_)
Join(lines) ==
    IF lines = <<>> THEN <<>>
    ELSE IF Len(lines) = 1 THEN lines[1]
    ELSE lines[1] \o <<NL>> \o Join(Tail(lines))

\* the sequences over S of length at most n
RECURSIVE SeqsUpTo(_, _)
SeqsUpTo(S, n) ==
    IF n = 0 THEN { <<>> }
    ELSE LET shorter == SeqsUpTo(S, n - 1)
         IN  shorter \cup { Append(s, x) : s \in { t \in shorter : Len(t) = n - 1 }, x \in S }

\* ------------------------------------------------------------------------
\* _split_text_into_blocks
\* ------------------------------------------------------------------------
\* the language inside the parentheses of an opening line
ParseLang(stripped) ==
    IF Contains(stripped, LPAREN) /\ Contains(stripped, RPAREN)
    THEN LET inner == strip(BeforeFirst(AfterFirst(stripped, LPAREN), RPAREN))
         IN  IF inner = <<>> THEN TEXT_LANG ELSE inner
    ELSE TEXT_LANG

\* the prose buffer flushed whether it holds a line or not
flush_text_Always(blocks, buf) == Append(blocks, <<"text", Join(buf), <<>>>>)

flush_text(blocks, buf) ==
    IF buf # <<>> THEN Append(blocks, <<"text", Join(buf), <<>>>>) ELSE blocks

\* whether a line outside a code run opens one
OpensCode(stripped) == startswith(stripped, BEGIN_CODE)

\* whether a line inside a code run closes it
ClosesCode(stripped) == stripped = <<END_CODE>>

ScanInit ==
    [blocks |-> <<>>, buf |-> <<>>, in_code |-> FALSE, code_lang |-> TEXT_LANG,
     code_buf |-> <<>>, marks |-> <<>>]

\* one iteration of the loop over the lines; marks records the branch taken
ScanLine(st, line) ==
    LET stripped == strip(line) IN
    IF ~st.in_code /\ OpensCode(stripped)
    THEN [st EXCEPT !.blocks = flush_text(st.blocks, st.buf),
                    !.buf = <<>>,
                    !.in_code = TRUE,
                    !.code_lang = ParseLang(stripped),
                    !.code_buf = <<>>,
                    !.marks = Append(@, "open")]
    ELSE IF st.in_code /\ ClosesCode(stripped)
    THEN [st EXCEPT !.blocks = Append(@, <<"code", Join(st.code_buf), st.code_lang>>),
                    !.in_code = FALSE,
                    !.code_lang = TEXT_LANG,
                    !.code_buf = <<>>,
                    !.marks = Append(@, "close")]
    ELSE IF st.in_code
    THEN [st EXCEPT !.code_buf = Append(@, line), !.marks = Append(@, "code")]
    ELSE [st EXCEPT !.buf = Append(@, line), !.marks = Append(@, "prose")]

RECURSIVE Scan(_, _)
Scan(st, lines) ==
    IF lines = <<>> THEN st ELSE Scan(ScanLine(st, Head(lines)), Tail(lines))

\* the end of the input inside a code run forgotten: only prose is flushed
ScanEnd_Drop(st) == flush_text(st.blocks, st.buf)

ScanEnd(st) ==
    IF st.in_code
    THEN Append(st.blocks, <<"code", Join(st.code_buf), st.code_lang>>)
    ELSE flush_text(st.blocks, st.buf)

_split_text_into_blocks(lines) == ScanEnd(Scan(ScanInit, lines))

\* print_assistant returns the contents of the code blocks, in order
RECURSIVE CodeContents(_)
CodeContents(blocks) ==
    IF blocks = <<>> THEN <<>>
    ELSE IF Head(blocks)[1] = "code"
         THEN <<Head(blocks)[2]>> \o CodeContents(Tail(blocks))
         ELSE CodeContents(Tail(blocks))

print_assistant(lines) == CodeContents(_split_text_into_blocks(lines))

\* ------------------------------------------------------------------------
\* Values exchanged with the model endpoint and the tools
\* ------------------------------------------------------------------------
\* JSON values of a tool call's arguments
Str(s) == <<"str", s>>
Int_(n) == <<"int", n>>

\* URLs are strings: <<scheme, rest>>; the empty string is <<>>
U1 == <<"https://", "u1">>
U2 == <<"https://", "u2">>
U3 == <<"https://", "u3">>
U4 == <<"https://", "u4">>
U5 == <<"https://", "u5">>
U6 == <<"https://", "u6">>
U7 == <<"https://", "u7">>
U8 == <<"https://", "u8">>
URL_PLAIN == <<"http://", "p">>
URL_FTP == <<"ftp://", "f">>
URL_UPPER == <<"HTTP://", "p">>
URL_EMPTY == <<>>

\* raw argument payloads: text that is not JSON, a JSON array, a JSON object
BadJson == [kind |-> "bad", val |-> <<>>]
JsonList == [kind |-> "list", val |-> <<>>]
JsonObj(o) == [kind |-> "obj", val |-> o]

\* json.loads(raw_args) with "except Exception: function_args = {}"
ParseArgs(raw) == IF raw.kind = "bad" THEN JsonObj(<<>>) ELSE raw

\* tool results are strings: a JSON payload of web_search or fetch_url, or a message
SearchPayload(query, results) == [kind |-> "search", query |-> query, results |-> results]
FetchPayload(url, status) == [kind |-> "fetch", url |-> url, status |-> status]
Message(what, about) == [kind |-> "message", what |-> what, about |-> about]

\* ------------------------------------------------------------------------
\* Configuration
\* ------------------------------------------------------------------------
AIKA_SOURCES_LIMIT == 6
WEB_SEARCH_LIMIT == 2
FETCH_URL_LIMIT == 3
DEFAULT_MAX_RESULTS == 5
DEFAULT_MAX_CHARS == 4000
STEP_LIMIT == 6

AVAILABLE_FUNCTIONS == {"create_file", "web_search", "fetch_url"}

\* the budgets main passes to run_tool_call
budgets == [web_search |-> WEB_SEARCH_LIMIT, fetch_url |-> FETCH_URL_LIMIT]

\* the parameters of the tool callables: required, and all
Required(name) ==
    CASE name = "create_file" -> {"filename", "content"}
      [] name = "web_search" -> {"query"}
      [] name = "fetch_url" -> {"url"}

Params(name) ==
    CASE name = "create_file" -> {"filename", "content"}
      [] name = "web_search" -> {"query", "max_results"}
      [] name = "fetch_url" -> {"url", "max_chars"}

\* fn(**function_args) binds: otherwise Python raises TypeError
Binds(name, parsed) ==
    /\ parsed.kind = "obj"
    /\ Required(name) \subseteq DOMAIN parsed.val
    /\ DOMAIN parsed.val \subseteq Params(name)

Arg(o, key, default) == IF key \in DOMAIN o THEN o[key] ELSE default

Put(f, k, v) == [x \in (DOMAIN f) \cup {k} |-> IF x = k THEN v ELSE f[x]]

\* one more external operation (search request, page fetch, file write) for op
Count(ext, op) == Put(ext, op, IF op \in DOMAIN ext THEN ext[op] + 1 ELSE 1)

\* ------------------------------------------------------------------------
\* The tools.  Each returns [raised, result, search, fetch, ext]: whether it
\* raised, its result string, the two caches and the log of external
\* operations after the call.  world is what the outside answers.
\* ------------------------------------------------------------------------
Returned(result, search, fetch, ext) ==
    [raised |-> "no", result |-> result, search |-> search, fetch |-> fetch, ext |-> ext]

Raised(what, search, fetch, ext) ==
    [raised |-> what, result |-> <<>>, search |-> search, fetch |-> fetch, ext |-> ext]

create_file(o, search, fetch, ext, world) ==
    IF world = "ok"
    THEN Returned(Message("Successfully created the file", o.filename), search, fetch,
                  Count(ext, <<"create_file", o>>))
    ELSE Returned(Message("Error creating file", o.filename), search, fetch, ext)

web_search(o, search, fetch, ext, world) ==
    LET max_results == Arg(o, "max_results", Int_(DEFAULT_MAX_RESULTS)) IN
    IF max_results[1] # "int"
    THEN Raised("ValueError", search, fetch, ext)
    ELSE LET key == <<o.query, max_results[2]>> IN
         IF key \in DOMAIN search
         THEN Returned(search[key], search, fetch, ext)
         ELSE LET payload_str == SearchPayload(o.query, world)
              IN  Returned(payload_str, Put(search, key, payload_str), fetch,
                           Count(ext, <<"web_search", o>>))

fetch_url(o, search, fetch, ext, world) ==
    LET max_chars == Arg(o, "max_chars", Int_(DEFAULT_MAX_CHARS)) IN
    IF max_chars[1] # "int"
    THEN Raised("ValueError", search, fetch, ext)
    ELSE LET key == <<o.url, max_chars[2]>> IN
         IF key \in DOMAIN fetch
         THEN Returned(fetch[key], search, fetch, ext)
         ELSE LET payload == FetchPayload(o.url[2], world)
              IN  Returned(payload, search, Put(fetch, key, payload),
                           Count(ext, <<"fetch_url", o>>))

\* fn(**function_args)
CallTool(name, parsed, search, fetch, ext, world) ==
    IF ~Binds(name, parsed) THEN Raised("TypeError", search, fetch, ext)
    ELSE CASE name = "create_file" -> create_file(parsed.val, search, fetch, ext, world)
           [] name = "web_search" -> web_search(parsed.val, search, fetch, ext, world)
           [] name = "fetch_url" -> fetch_url(parsed.val, search, fetch, ext, world)

\* ------------------------------------------------------------------------
\* _add_source and run_tool_call
\* ------------------------------------------------------------------------
Sources(lst, seen) == [lst |-> lst, seen |-> seen]

\* the URL appended without being recorded in the companion set
_add_source_Unseen(url, lst, seen) ==
    IF url = URL_EMPTY THEN Sources(lst, seen)
    ELSE IF ~(startswith(url, "http://") \/ startswith(url, "https://")) THEN Sources(lst, seen)
    ELSE IF url \in seen THEN Sources(lst, seen)
    ELSE Sources(Append(lst, url), seen)

_add_source(url, lst, seen) ==
    IF url = URL_EMPTY THEN Sources(lst, seen)
    ELSE IF ~(startswith(url, "http://") \/ startswith(url, "https://")) THEN Sources(lst, seen)
    ELSE IF url \in seen THEN Sources(lst, seen)
    ELSE Sources(Append(lst, url), seen \cup {url})

\* the loop over the results of a search, with its break
RECURSIVE AddSearchSources(_, _, _)
AddSearchSources(results, lst, seen) ==
    IF results = <<>> THEN Sources(lst, seen)
    ELSE LET s == _add_source(Head(results), lst, seen) IN
         IF Len(s.lst) >= AIKA_SOURCES_LIMIT THEN s
         ELSE AddSearchSources(Tail(results), s.lst, s.seen)

\* the second try block of run_tool_call: json.loads(result) raises for a message
CollectSources(function_name, result, lst, seen) ==
    IF function_name = "web_search" /\ result.kind = "search"
    THEN AddSearchSources(result.results, lst, seen)
    ELSE IF function_name = "fetch_url" /\ result.kind = "fetch"
    THEN _add_source(result.url, lst, seen)
    ELSE Sources(lst, seen)

\* the tool Turn without the identifier of the request it answers
ToolTurn_Anonymous(tool_call, result) ==
    [tool_call_id |-> <<0, 0>>, role |-> "tool",
     name |-> tool_call.function.name, content |-> result]

ToolTurn(tool_call, result) ==
    [tool_call_id |-> tool_call.id, role |-> "tool",
     name |-> tool_call.function.name, content |-> result]

\* no check of the count against the limit
BudgetExceeded_Never(function_name, counts) == FALSE

\* the check with > for >=
BudgetExceeded_Late(function_name, counts) ==
    /\ function_name \in DOMAIN budgets
    /\ Arg(counts, function_name, 0) > budgets[function_name]

BudgetExceeded(function_name, counts) ==
    /\ function_name \in DOMAIN budgets
    /\ Arg(counts, function_name, 0) >= budgets[function_name]

\* the call left uncounted
Increment_None(counts, function_name) == counts

\* counts[function_name] = counts.get(function_name, 0) + 1
Increment(counts, function_name) == Put(counts, function_name, Arg(counts, function_name, 0) + 1)

\* run_tool_call: the tool Turn and the state it leaves
run_tool_call(tool_call, counts, lst, seen, search, fetch, ext, world) ==
    LET function_name == tool_call.function.name
        function_args == ParseArgs(tool_call.function.arguments)
        same == [counts |-> counts, lst |-> lst, seen |-> seen,
                 search |-> search, fetch |-> fetch, ext |-> ext]
    IN
    IF BudgetExceeded(function_name, counts)
    THEN same @@ [msg |-> ToolTurn(tool_call, Message("Budget exceeded", function_name))]
    ELSE IF function_name \notin AVAILABLE_FUNCTIONS
    THEN same @@ [msg |-> ToolTurn(tool_call, Message("Error: unknown tool", function_name))]
    ELSE LET r == CallTool(function_name, function_args, search, fetch, ext, world)
             result == CASE r.raised = "no" -> r.result
                         [] r.raised = "TypeError" -> Message("Error calling", function_name)
                         [] OTHER -> Message("Error in", function_name)
             s == CollectSources(function_name, result, lst, seen)
         IN  [counts |-> IF r.raised = "no" THEN Increment(counts, function_name) ELSE counts,
              lst |-> s.lst, seen |-> s.seen,
              search |-> r.search, fetch |-> r.fetch, ext |-> r.ext,
              msg |-> ToolTurn(tool_call, result)]

\* ------------------------------------------------------------------------
\* Texts of the agent loop: a text is the sequence of its lines
\* ------------------------------------------------------------------------
SYSTEM_PROMPT == << <<"You are AIKA">> >>
USER_PROMPT == << <<"question">> >>
STEP_NOTICE == << <<"Tool loop exceeded 6 steps; provide your best answer now">> >>
ERROR_OCCURRED == << <<"An error occurred">> >>
ERROR_FINAL == << <<"Could not render final answer">> >>
INTERRUPTED == << <<"Interrupted. Type 'quit' to exit.">> >>
FINAL_DIRECTIVE == << <<"Final answer only. Do not call any tools in this turn.">> >>

\* text.rstrip(): trailing blank lines go, and the last line's trailing whitespace
RECURSIVE RstripText(_)
RstripText(text) ==
    IF text = <<>> THEN <<>>
    ELSE IF rstrip(text[Len(text)]) = <<>> THEN RstripText(SubSeq(text, 1, Len(text) - 1))
    ELSE SubSeq(text, 1, Len(text) - 1) \o <<rstrip(text[Len(text)])>>

Min(a, b) == IF a < b THEN a ELSE b

append_sources_to_text(text, sources) ==
    IF sources = <<>> THEN text
    ELSE LET out == RstripText(text)
             head == IF out = <<>> THEN << <<>>, <<>> >> ELSE out \o << <<>> >>
         IN  head \o << <<"Sources:">> >>
                  \o [i \in 1..Min(Len(sources), AIKA_SOURCES_LIMIT) |-> <<"- ">> \o sources[i]]

\* ------------------------------------------------------------------------
\* The segmenter's input and output, when it is applied on its own
\* ------------------------------------------------------------------------
VARIABLES seg_lines, seg_blocks, seg_marks, seg_done

seg_vars == <<seg_lines, seg_blocks, seg_marks, seg_done>>

\* ------------------------------------------------------------------------
\* The state of main()
\* ------------------------------------------------------------------------
VARIABLES
    pc,                        \* where main is: prompt, model, tools, final, exited
    conversation_history,      \* the transcript
    step_count,
    tool_counts,
    collected_sources,
    collected_seen,
    tool_calls,                \* message.tool_calls of the reply being processed
    tc,                        \* the index in tool_calls of the call in flight
    _SEARCH_CACHE,
    _FETCH_CACHE,
    last_answer_text,
    last_code_blocks,
    last_answer_sources,
    AIKA_ALWAYS_SHOW_SOURCES,
    rendered,                  \* the texts print_assistant rendered since the last input
    event,                     \* what the last step was
    ext_ops,                   \* external operations performed, per tool and arguments
    turn_base,                 \* the transcript when the current user message was read
    calls                      \* model calls issued for the current user message

agent_vars ==
    <<pc, conversation_history, step_count, tool_counts, collected_sources, collected_seen,
      tool_calls, tc, _SEARCH_CACHE, _FETCH_CACHE, last_answer_text, last_code_blocks,
      last_answer_sources, AIKA_ALWAYS_SHOW_SOURCES, rendered, event, ext_ops, turn_base,
      calls>>

loop_vars == <<step_count, tool_counts, collected_sources, collected_seen, tool_calls, tc>>
cache_vars == <<_SEARCH_CACHE, _FETCH_CACHE, ext_ops>>
last_vars == <<last_answer_text, last_code_blocks, last_answer_sources>>

Last(s) == s[Len(s)]

ToolCallsOf(turn) == IF "tool_calls" \in DOMAIN turn THEN turn.tool_calls ELSE <<>>

RECURSIVE SumLen(_)
SumLen(h) == IF h = <<>> THEN 0 ELSE Len(ToolCallsOf(Head(h))) + SumLen(Tail(h))

\* tool requests and user messages of the session so far
NumRequests == SumLen(conversation_history)
NumUserTurns == Cardinality({i \in 1..Len(conversation_history) : conversation_history[i].role = "user"})

AgentInit ==
    /\ pc = "prompt"
    /\ conversation_history = <<[role |-> "system", content |-> SYSTEM_PROMPT]>>
    /\ step_count = 0
    /\ tool_counts = [web_search |-> 0, fetch_url |-> 0, create_file |-> 0]
    /\ collected_sources = <<>>
    /\ collected_seen = {}
    /\ tool_calls = <<>>
    /\ tc = 0
    /\ _SEARCH_CACHE = <<>>
    /\ _FETCH_CACHE = <<>>
    /\ last_answer_text = <<>>
    /\ last_code_blocks = <<>>
    /\ last_answer_sources = <<>>
    /\ AIKA_ALWAYS_SHOW_SOURCES \in BOOLEAN
    /\ rendered = <<>>
    /\ event = "start"
    /\ ext_ops = <<>>
    /\ turn_base = <<>>
    /\ calls = [tools |-> 0, final |-> 0, request |-> [messages |-> <<>>, tools |-> FALSE]]

\* ------------------------------------------------------------------------
\* The input prompt: empty input, commands, quit
\* ------------------------------------------------------------------------
Say(text) == << text >>

\* the request of main to the endpoint: the transcript, with the tool schemas
ToolRequest(history) == [messages |-> history, tools |-> TRUE]

\* the request of print_final_answer: the transcript and the directive, no tools
FinalRequest(history) ==
    [messages |-> Append(history, [role |-> "system", content |-> FINAL_DIRECTIVE]),
     tools |-> FALSE]

save_text_to_file(text, world) ==
    IF RstripText(text) = <<>> THEN << <<"Nothing to save yet. Ask a question first.">> >>
    ELSE IF world = "ok" THEN << <<"Successfully created the file">> >>
    ELSE << <<"Error creating file">> >>

copy_to_clipboard(text, world) ==
    IF text = <<>> THEN << <<"Nothing to copy.">> >>
    ELSE IF world = "ok" THEN << <<"Copied to clipboard.">> >>
    ELSE << <<"Could not copy (no clipboard tool found).">> >>

\* the copy command; n = 0 stands for no index given
CopyCommand(n, world) ==
    IF last_code_blocks = <<>> THEN << <<"No code blocks in last answer.">> >>
    ELSE IF n = 0 THEN copy_to_clipboard(Last(last_code_blocks), world)
    ELSE IF ~(0 <= n - 1 /\ n - 1 < Len(last_code_blocks)) THEN << <<"Index out of range.">> >>
    ELSE copy_to_clipboard(last_code_blocks[n], world)

Commands ==
    {"", "clear", "help", "s", "save f", "copy", "copy 1", "copy 2",
     "sources on", "sources off", "sources status"}

\* what a command renders; <<>> when it renders nothing
CommandOutput(cmd, world) ==
    CASE cmd \in {"", "clear"} -> <<>>
      [] cmd = "help" -> Say(<< <<"Commands:">> >>)
      [] cmd = "s" -> IF world = "interrupt" THEN Say(<< <<"Save canceled.">> >>)
                      ELSE Say(save_text_to_file(last_answer_text, world))
      [] cmd = "save f" -> Say(save_text_to_file(last_answer_text, world))
      [] cmd = "copy" -> Say(CopyCommand(0, world))
      [] cmd = "copy 1" -> Say(CopyCommand(1, world))
      [] cmd = "copy 2" -> Say(CopyCommand(2, world))
      [] cmd = "sources on" -> Say(<< <<"Sources: ON">> >>)
      [] cmd = "sources off" -> Say(<< <<"Sources: OFF">> >>)
      [] cmd = "sources status" ->
            Say(<< <<IF AIKA_ALWAYS_SHOW_SOURCES THEN "Sources: ON" ELSE "Sources: OFF">> >>)

CommandWorld(cmd) ==
    IF cmd = "s" THEN {"ok", "error", "interrupt"}
    ELSE IF cmd \in {"save f", "copy", "copy 1", "copy 2"} THEN {"ok", "error"}
    ELSE {"none"}

\* a clear command that also forgets the conversation
Command_ClearForgets(cmd, world) ==
    /\ pc = "prompt"
    /\ rendered' = CommandOutput(cmd, world)
    /\ AIKA_ALWAYS_SHOW_SOURCES' =
          (CASE cmd = "sources on" -> TRUE
             [] cmd = "sources off" -> FALSE
             [] OTHER -> AIKA_ALWAYS_SHOW_SOURCES)
    /\ conversation_history' =
          IF cmd = "clear" THEN SubSeq(conversation_history, 1, 1) ELSE conversation_history
    /\ event' = "command"
    /\ UNCHANGED <<seg_vars, pc, loop_vars, cache_vars, last_vars, turn_base, calls>>

Command(cmd, world) ==
    /\ pc = "prompt"
    /\ rendered' = CommandOutput(cmd, world)
    /\ AIKA_ALWAYS_SHOW_SOURCES' =
          (CASE cmd = "sources on" -> TRUE
             [] cmd = "sources off" -> FALSE
             [] OTHER -> AIKA_ALWAYS_SHOW_SOURCES)
    /\ event' = "command"
    /\ UNCHANGED <<seg_vars, pc, conversation_history, loop_vars, cache_vars, last_vars, turn_base, calls>>

Quit ==
    /\ pc = "prompt"
    /\ pc' = "exited"
    /\ rendered' = <<>>
    /\ event' = "quit"
    /\ UNCHANGED <<seg_vars, conversation_history, loop_vars, cache_vars, last_vars,
                   AIKA_ALWAYS_SHOW_SOURCES, turn_base, calls>>

\* a user message that leaves the counters of the turn before as they are
UserMessage_KeepCounts(maxTurns) ==
    /\ pc = "prompt"
    /\ NumUserTurns < maxTurns
    /\ conversation_history' =
          Append(conversation_history, [role |-> "user", content |-> USER_PROMPT])
    /\ collected_sources' = <<>>
    /\ collected_seen' = {}
    /\ step_count' = 0
    /\ pc' = "model"
    /\ rendered' = <<>>
    /\ event' = "user"
    /\ turn_base' = conversation_history
    /\ calls' = [tools |-> 1, final |-> 0, request |-> ToolRequest(conversation_history')]
    /\ UNCHANGED <<seg_vars, tool_counts, tool_calls, tc, cache_vars, last_vars,
                   AIKA_ALWAYS_SHOW_SOURCES>>

\* a regular user message: the turn begins and the first model call is issued
UserMessage(maxTurns) ==
    /\ pc = "prompt"
    /\ NumUserTurns < maxTurns
    /\ conversation_history' =
          Append(conversation_history, [role |-> "user", content |-> USER_PROMPT])
    /\ tool_counts' = [web_search |-> 0, fetch_url |-> 0, create_file |-> 0]
    /\ collected_sources' = <<>>
    /\ collected_seen' = {}
    /\ step_count' = 0
    /\ pc' = "model"
    /\ rendered' = <<>>
    /\ event' = "user"
    /\ turn_base' = conversation_history
    /\ calls' = [tools |-> 1, final |-> 0, request |-> ToolRequest(conversation_history')]
    /\ UNCHANGED <<seg_vars, tool_calls, tc, cache_vars, last_vars, AIKA_ALWAYS_SHOW_SOURCES>>

\* ------------------------------------------------------------------------
\* The model endpoint
\* ------------------------------------------------------------------------
MaxBatch == 2

\* a ToolInvocationRequest as the endpoint returns it; the endpoint issues the
\* identifier, here the place of the request: <<index of its assistant Turn, position>>
ToolCall(id, req) ==
    [id |-> id, type |-> "function",
     function |-> [name |-> req.name, arguments |-> req.arguments]]

\* the replies that carry tool requests drawn from pool
Batches(pool) == SeqsUpTo(pool, MaxBatch) \ { <<>> }

WithIds(batch, at) == [k \in 1..Len(batch) |-> ToolCall(<<at, k>>, batch[k])]

\* the texts a reply may carry; the first is the empty (or absent) content
EMPTY_TEXT == <<>>
ANSWER == << <<"a">>, <<BEGIN_CODE, WS, LPAREN, "py", RPAREN>>, <<WS, "x">>, <<END_CODE>>, <<>> >>
Answers == {ANSWER}

\* to_assistant_message_dict
to_assistant_message_dict(content, calls_) ==
    IF calls_ # <<>>
    THEN [role |-> "assistant", content |-> content, tool_calls |-> calls_]
    ELSE [role |-> "assistant", content |-> content]

\* the check after the loop taken to hold always
NeedsFinal_Always(history) == TRUE

\* the check after the loop: the last Turn is no assistant Turn
NeedsFinal(history) == history # <<>> /\ Last(history).role # "assistant"

\* client.chat.completions.create raises: caught by "except Exception" of main
ModelFails ==
    /\ pc = "model"
    /\ pc' = "prompt"
    /\ rendered' = Append(rendered, ERROR_OCCURRED)
    /\ event' = "endpoint_error"
    /\ UNCHANGED <<seg_vars, conversation_history, loop_vars, cache_vars, last_vars,
                   AIKA_ALWAYS_SHOW_SOURCES, turn_base, calls>>

\* the requests of a reply dispatched from the last one
ModelRequestsTools_LastFirst(pool, maxRequests) ==
    /\ pc = "model"
    /\ \E batch \in Batches(pool) :
          /\ NumRequests + Len(batch) <= maxRequests
          /\ LET requests == WithIds(batch, Len(conversation_history) + 1) IN
             /\ conversation_history' =
                   Append(conversation_history, to_assistant_message_dict(EMPTY_TEXT, requests))
             /\ tool_calls' = requests
             /\ tc' = Len(requests)
    /\ pc' = "tools"
    /\ event' = "reply_tools"
    /\ UNCHANGED <<seg_vars, step_count, tool_counts, collected_sources, collected_seen, cache_vars,
                   last_vars, AIKA_ALWAYS_SHOW_SOURCES, rendered, turn_base, calls>>

\* the reply carries tool requests: the first of them is dispatched
ModelRequestsTools(pool, maxRequests) ==
    /\ pc = "model"
    /\ \E batch \in Batches(pool) :
          /\ NumRequests + Len(batch) <= maxRequests
          /\ LET requests == WithIds(batch, Len(conversation_history) + 1) IN
             /\ conversation_history' =
                   Append(conversation_history, to_assistant_message_dict(EMPTY_TEXT, requests))
             /\ tool_calls' = requests
    /\ tc' = 1
    /\ pc' = "tools"
    /\ event' = "reply_tools"
    /\ UNCHANGED <<seg_vars, step_count, tool_counts, collected_sources, collected_seen, cache_vars,
                   last_vars, AIKA_ALWAYS_SHOW_SOURCES, rendered, turn_base, calls>>

\* the reply carries no tool request and a text: the final answer
ModelAnswers ==
    /\ pc = "model"
    /\ \E content \in Answers :
          LET text == IF AIKA_ALWAYS_SHOW_SOURCES /\ collected_sources # <<>>
                      THEN append_sources_to_text(content, collected_sources)
                      ELSE content
          IN  /\ conversation_history' =
                    Append(conversation_history, to_assistant_message_dict(content, <<>>))
              /\ last_answer_text' = text
              /\ last_answer_sources' = collected_sources
              /\ last_code_blocks' = print_assistant(text)
              /\ rendered' = Append(rendered, text)
    /\ pc' = IF NeedsFinal(conversation_history') THEN "final" ELSE "prompt"
    /\ calls' = IF NeedsFinal(conversation_history')
                THEN [calls EXCEPT !.final = @ + 1, !.request = FinalRequest(conversation_history')]
                ELSE calls
    /\ event' = "reply_text"
    /\ UNCHANGED <<seg_vars, loop_vars, cache_vars, AIKA_ALWAYS_SHOW_SOURCES, turn_base>>

\* the reply carries neither: print_final_answer issues the call without tools
ModelAnswersNothing ==
    /\ pc = "model"
    /\ conversation_history' =
          Append(conversation_history, to_assistant_message_dict(EMPTY_TEXT, <<>>))
    /\ pc' = "final"
    /\ event' = "reply_empty"
    /\ calls' = [calls EXCEPT !.final = @ + 1, !.request = FinalRequest(conversation_history')]
    /\ UNCHANGED <<seg_vars, loop_vars, cache_vars, last_vars, AIKA_ALWAYS_SHOW_SOURCES, rendered,
                   turn_base>>

\* ------------------------------------------------------------------------
\* The loop over the tool requests of a reply
\* ------------------------------------------------------------------------
SearchResults ==
    { <<U1, U1, URL_FTP, URL_EMPTY, URL_UPPER, URL_PLAIN>>,
      <<U1, U2, U3, U4, U5, U6, U7>> }

\* what the outside may answer to a tool
World(name) ==
    CASE name = "web_search" -> SearchResults
      [] name \in {"fetch_url", "create_file"} -> {"ok", "error"}
      [] OTHER -> {"none"}

\* the call in flight returns; after the last one of the reply the step is counted
ToolCallReturns ==
    /\ pc = "tools"
    /\ \E world \in World(tool_calls[tc].function.name) :
          LET r == run_tool_call(tool_calls[tc], tool_counts, collected_sources,
                                 collected_seen, _SEARCH_CACHE, _FETCH_CACHE, ext_ops, world)
              answered == Append(conversation_history, r.msg)
              last == tc = Len(tool_calls)
              exceeded == last /\ step_count + 1 > STEP_LIMIT
              history == IF exceeded
                         THEN Append(answered, [role |-> "system", content |-> STEP_NOTICE])
                         ELSE answered
              next == IF ~last THEN "tools"
                      ELSE IF ~exceeded THEN "model"
                      ELSE IF NeedsFinal(history) THEN "final" ELSE "prompt"
          IN  /\ conversation_history' = history
              /\ tool_counts' = r.counts
              /\ collected_sources' = r.lst
              /\ collected_seen' = r.seen
              /\ _SEARCH_CACHE' = r.search
              /\ _FETCH_CACHE' = r.fetch
              /\ ext_ops' = r.ext
              /\ event' = IF r.msg.content.kind = "message" /\ r.msg.content.what = "Budget exceeded"
                          THEN "refused" ELSE "tool"
              /\ tc' = IF last THEN tc ELSE tc + 1
              /\ step_count' = IF last THEN step_count + 1 ELSE step_count
              /\ pc' = next
              /\ calls' = [tools |-> IF next = "model" THEN calls.tools + 1 ELSE calls.tools,
                           final |-> IF next = "final" THEN calls.final + 1 ELSE calls.final,
                           request |-> CASE next = "model" -> ToolRequest(history)
                                         [] next = "final" -> FinalRequest(history)
                                         [] OTHER -> calls.request]
    /\ UNCHANGED <<seg_vars, tool_calls, last_vars, AIKA_ALWAYS_SHOW_SOURCES, rendered, turn_base>>

\* ------------------------------------------------------------------------
\* print_final_answer and the end of the turn
\* ------------------------------------------------------------------------
\* the final answer written over the last Turn instead of appended
EndTurn_Overwrite(final_text) ==
    /\ conversation_history' =
          [conversation_history EXCEPT ![Len(conversation_history)] =
              [role |-> "assistant", content |-> final_text]]
    /\ last_answer_text' = final_text
    /\ last_answer_sources' = collected_sources
    /\ last_code_blocks' = print_assistant(final_text)
    /\ rendered' = Append(rendered, final_text)
    /\ LET again == /\ Last(conversation_history).role = "assistant"
                    /\ NeedsFinal(conversation_history')
       IN  /\ pc' = IF again THEN "final" ELSE "prompt"
           /\ calls' = IF again
                       THEN [calls EXCEPT !.final = @ + 1,
                                          !.request = FinalRequest(conversation_history')]
                       ELSE calls

\* the final answer is recorded; after the forced answer to a degenerate reply
\* the check that follows the loop is made once more
EndTurn(final_text) ==
    /\ conversation_history' =
          Append(conversation_history, [role |-> "assistant", content |-> final_text])
    /\ last_answer_text' = final_text
    /\ last_answer_sources' = collected_sources
    /\ last_code_blocks' = print_assistant(final_text)
    /\ rendered' = Append(rendered, final_text)
    /\ LET again == /\ Last(conversation_history).role = "assistant"
                    /\ NeedsFinal(conversation_history')
       IN  /\ pc' = IF again THEN "final" ELSE "prompt"
           /\ calls' = IF again
                       THEN [calls EXCEPT !.final = @ + 1,
                                          !.request = FinalRequest(conversation_history')]
                       ELSE calls

FinalAnswers ==
    /\ pc = "final"
    /\ \E content \in Answers \cup {EMPTY_TEXT} :
          EndTurn(IF AIKA_ALWAYS_SHOW_SOURCES /\ collected_sources # <<>>
                  THEN append_sources_to_text(content, collected_sources)
                  ELSE content)
    /\ event' = "final_ok"
    /\ UNCHANGED <<seg_vars, loop_vars, cache_vars, AIKA_ALWAYS_SHOW_SOURCES, turn_base>>

\* the call raises inside print_final_answer, which answers with the error
FinalFails ==
    /\ pc = "final"
    /\ EndTurn(ERROR_FINAL)
    /\ event' = "final_error"
    /\ UNCHANGED <<seg_vars, loop_vars, cache_vars, AIKA_ALWAYS_SHOW_SOURCES, turn_base>>

\* ------------------------------------------------------------------------
\* KeyboardInterrupt
\* ------------------------------------------------------------------------
\* while a model call or a tool call is in flight: it passes every
\* "except Exception" and is caught by main, which goes back to the prompt
Interrupt ==
    /\ pc \in {"model", "tools", "final"}
    /\ pc' = "prompt"
    /\ rendered' = Append(rendered, INTERRUPTED)
    /\ event' = "interrupt"
    /\ UNCHANGED <<seg_vars, conversation_history, loop_vars, cache_vars, last_vars,
                   AIKA_ALWAYS_SHOW_SOURCES, turn_base, calls>>

\* at the prompt: prompt_input returns "" (prompt_toolkit), or input() raises
PromptInterrupt ==
    /\ pc = "prompt"
    /\ rendered' \in {<<>>, <<INTERRUPTED>>}
    /\ event' = "prompt_interrupt"
    /\ UNCHANGED <<seg_vars, pc, conversation_history, loop_vars, cache_vars, last_vars,
                   AIKA_ALWAYS_SHOW_SOURCES, turn_base, calls>>

\* ------------------------------------------------------------------------
\* The segmenter applied to bounded inputs
\* ------------------------------------------------------------------------
MaxLines == 4

LinePool ==
    { <<"a">>,
      <<WS, "b">>,
      <<>>,
      <<BEGIN_CODE>>,
      <<WS, BEGIN_CODE, WS, LPAREN, "py", RPAREN>>,
      <<BEGIN_CODE, WS, "a">>,
      <<END_CODE, WS>>,
      <<END_CODE, "a">> }

SegIdle ==
    /\ seg_lines = <<>>
    /\ seg_blocks = <<>>
    /\ seg_marks = <<>>
    /\ seg_done = TRUE

SegInit ==
    /\ seg_lines \in SeqsUpTo(LinePool, MaxLines)
    /\ seg_blocks = <<>>
    /\ seg_marks = <<>>
    /\ seg_done = FALSE
    /\ AgentInit

Split ==
    /\ ~seg_done
    /\ seg_blocks' = _split_text_into_blocks(seg_lines)
    /\ seg_marks' = Scan(ScanInit, seg_lines).marks
    /\ seg_done' = TRUE
    /\ UNCHANGED <<seg_lines, agent_vars>>

vars == <<agent_vars, seg_vars>>

SegNext == Split

SegSpec == SegInit /\ [][SegNext]_vars

\* ------------------------------------------------------------------------
\* The session: the whole of main(), with a model that requests page fetches
\* ------------------------------------------------------------------------
MaxTurns == 2
MaxRequests == 7

FetchRequest(url) == [name |-> "fetch_url", arguments |-> JsonObj([url |-> Str(url)])]

AgentPool == { FetchRequest(U8) }

Init == AgentInit /\ SegIdle

Next ==
    \/ Quit
    \/ PromptInterrupt
    \/ UserMessage(MaxTurns)
    \/ ModelFails
    \/ ModelRequestsTools(AgentPool, MaxRequests)
    \/ ModelAnswers
    \/ ModelAnswersNothing
    \/ ToolCallReturns
    \/ FinalAnswers
    \/ FinalFails
    \/ Interrupt

Spec == Init /\ [][Next]_vars

\* ------------------------------------------------------------------------
\* The session when every call returns or raises: a model call in flight is
\* answered (or fails), the tool call in flight returns, and the forced
\* final-answer call is answered (or fails)
\* ------------------------------------------------------------------------
ModelReturns ==
    \/ ModelFails
    \/ ModelRequestsTools(AgentPool, MaxRequests)
    \/ ModelAnswers
    \/ ModelAnswersNothing

FinalReturns == FinalAnswers \/ FinalFails

LiveSpec ==
    /\ Init
    /\ [][Next]_vars
    /\ WF_vars(ModelReturns)
    /\ WF_vars(ToolCallReturns)
    /\ WF_vars(FinalReturns)

\* ------------------------------------------------------------------------
\* The input prompt: main() with every command, between turns that end with
\* an answer
\* ------------------------------------------------------------------------
CmdMaxTurns == 2
CmdMaxRequests == 2

CmdNext ==
    \/ \E cmd \in Commands : \E world \in CommandWorld(cmd) : Command(cmd, world)
    \/ Quit
    \/ PromptInterrupt
    \/ UserMessage(CmdMaxTurns)
    \/ ModelRequestsTools(AgentPool, CmdMaxRequests)
    \/ ToolCallReturns
    \/ ModelAnswers
    \/ ModelAnswersNothing
    \/ FinalAnswers

CmdSpec == Init /\ [][CmdNext]_vars

\* ------------------------------------------------------------------------
\* The tool layer: the turns of main() with a model that requests every tool,
\* with well-formed and with malformed arguments
\* ------------------------------------------------------------------------
ToolMaxTurns == 2
ToolMaxRequests == 3

ToolPool ==
    { [name |-> "web_search", arguments |-> JsonObj([query |-> Str("q")])],
      [name |-> "web_search", arguments |-> BadJson],
      [name |-> "web_search", arguments |-> JsonObj([query |-> Str("q"), max_results |-> Str("many")])],
      FetchRequest(U8),
      [name |-> "fetch_url", arguments |-> JsonList],
      [name |-> "create_file", arguments |-> JsonObj([filename |-> Str("f"), content |-> Str("c")])],
      [name |-> "shell", arguments |-> JsonList] }

ToolNext ==
    \/ UserMessage(ToolMaxTurns)
    \/ ModelRequestsTools(ToolPool, ToolMaxRequests)
    \/ ModelAnswers
    \/ ToolCallReturns

ToolSpec == Init /\ [][ToolNext]_vars

\* ------------------------------------------------------------------------
\* The budgets: the turns of main() with a model that requests each tool,
\* with well-formed arguments, more often than its limit
\* ------------------------------------------------------------------------
BudgetMaxTurns == 1
BudgetMaxRequests == 5

BudgetPool ==
    { [name |-> "web_search", arguments |-> JsonObj([query |-> Str("q")])],
      FetchRequest(U8),
      [name |-> "create_file", arguments |-> JsonObj([filename |-> Str("f"), content |-> Str("c")])] }

BudgetNext ==
    \/ UserMessage(BudgetMaxTurns)
    \/ ModelRequestsTools(BudgetPool, BudgetMaxRequests)
    \/ ModelAnswers
    \/ ToolCallReturns

BudgetSpec == Init /\ [][BudgetNext]_vars

\* ------------------------------------------------------------------------
\* What the transcript says about the current turn
\* ------------------------------------------------------------------------
IsPrefix(s, t) == Len(s) <= Len(t) /\ SubSeq(t, 1, Len(s)) = s

\* the index of the user Turn that began the current turn
TurnStart == Len(turn_base) + 1

TurnIndices == TurnStart..Len(conversation_history)

BatchesInTurn ==
    Cardinality({i \in TurnIndices : /\ conversation_history[i].role = "assistant"
                                      /\ ToolCallsOf(conversation_history[i]) # <<>>})

IsRefusal(turn) ==
    /\ turn.role = "tool"
    /\ turn.content.kind = "message"
    /\ turn.content.what = "Budget exceeded"

\* the tool Turns of the current turn that answer a request to name without refusing it
NotRefusedInTurn(name) ==
    Cardinality({i \in TurnIndices : /\ conversation_history[i].role = "tool"
                                      /\ conversation_history[i].name = name
                                      /\ ~IsRefusal(conversation_history[i])})

AllRequests ==
    UNION { { ToolCallsOf(conversation_history[i])[k] :
                k \in 1..Len(ToolCallsOf(conversation_history[i])) } :
            i \in 1..Len(conversation_history) }

RequestOf(id) == CHOOSE r \in AllRequests : r.id = id

SameArguments(a, b) ==
    /\ a.kind = b.kind
    /\ DOMAIN a.val = DOMAIN b.val
    /\ \A k \in DOMAIN a.val : a.val[k] = b.val[k]

\* the tool Turns that report a call of a registered tool (not a refusal)
ToolInvocations ==
    {i \in 1..Len(conversation_history) :
        /\ conversation_history[i].role = "tool"
        /\ conversation_history[i].name \in AVAILABLE_FUNCTIONS
        /\ ~IsRefusal(conversation_history[i])}

ArgumentsOf(i) == ParseArgs(RequestOf(conversation_history[i].tool_call_id).function.arguments)

\* the step-ceiling notice has just been appended
CeilingReached ==
    /\ Len(conversation_history) > 1
    /\ Last(conversation_history).role = "system"

\* ------------------------------------------------------------------------
\* C1.  Step-ceiling termination: when the loop stops at the step ceiling,
\* the number of tool batches executed in the turn is exactly the ceiling, 6.
\* ------------------------------------------------------------------------
C1_StepCeiling == CeilingReached => BatchesInTurn = STEP_LIMIT

\* ------------------------------------------------------------------------
\* C2.  Budget monotonicity: within a turn the count of a budgeted tool is the
\* number of requests to it that were not refused, whatever their outcome.
\* ------------------------------------------------------------------------
C2_BudgetCountsEveryRequest ==
    \A name \in DOMAIN budgets : tool_counts[name] = NotRefusedInTurn(name)

\* ------------------------------------------------------------------------
\* C3.  Budget refusal has no side effects: a dispatch of a request to a
\* budgeted tool whose count has reached the limit appends the refusal as the
\* tool Turn and leaves the counters, the caches, the SourceList with its
\* companion set and the external operations as they were.
\* ------------------------------------------------------------------------
C3_RefusalHasNoSideEffects ==
    [][ (/\ pc = "tools"
         /\ conversation_history' # conversation_history
         /\ tool_calls[tc].function.name \in DOMAIN budgets
         /\ tool_counts[tool_calls[tc].function.name]
               >= budgets[tool_calls[tc].function.name])
        => (/\ conversation_history'[Len(conversation_history) + 1] =
                  [tool_call_id |-> tool_calls[tc].id, role |-> "tool",
                   name |-> tool_calls[tc].function.name,
                   content |-> Message("Budget exceeded", tool_calls[tc].function.name)]
            /\ tool_counts' = tool_counts
            /\ _SEARCH_CACHE' = _SEARCH_CACHE
            /\ _FETCH_CACHE' = _FETCH_CACHE
            /\ collected_sources' = collected_sources
            /\ collected_seen' = collected_seen
            /\ ext_ops' = ext_ops) ]_vars

C3_Witness ==
    /\ event = "refused"
    /\ IsRefusal(Last(conversation_history))
    /\ tool_counts["web_search"] = WEB_SEARCH_LIMIT
    /\ DOMAIN _SEARCH_CACHE # {}

\* ------------------------------------------------------------------------
\* C4.  Cache idempotence: two invocations of a tool with the same arguments
\* return the same result, and the external operation behind them is
\* performed at most once.
\* ------------------------------------------------------------------------
C4_CacheIdempotence ==
    /\ \A i, j \in ToolInvocations :
          (/\ conversation_history[i].name = conversation_history[j].name
           /\ SameArguments(ArgumentsOf(i), ArgumentsOf(j)))
          => conversation_history[i].content = conversation_history[j].content
    /\ \A op \in DOMAIN ext_ops : ext_ops[op] <= 1

\* ------------------------------------------------------------------------
\* C5.  Source dedup and cap: the SourceList holds only http:// and https://
\* URLs, none twice, and never more than AIKA_SOURCES_LIMIT of them.
\* ------------------------------------------------------------------------
C5_SourcesDedupAndCap ==
    /\ \A i \in 1..Len(collected_sources) :
          startswith(collected_sources[i], "http://") \/ startswith(collected_sources[i], "https://")
    /\ \A i, j \in 1..Len(collected_sources) :
          collected_sources[i] = collected_sources[j] => i = j
    /\ Len(collected_sources) <= AIKA_SOURCES_LIMIT
\* ------------------------------------------------------------------------
\* C6.  Transcript append-only: every step leaves the Turns already in the
\* transcript in place and unmodified (the transcript only grows at its end),
\* so the transcript of before the turn is a prefix of the transcript after it.
\* ------------------------------------------------------------------------
C6_TranscriptAppendOnly ==
    /\ [](IsPrefix(turn_base, conversation_history))
    /\ [][IsPrefix(conversation_history, conversation_history')]_vars

\* a second turn has ended, by the forced final answer failing or by an interrupt
C6_Witness ==
    /\ pc = "prompt"
    /\ event \in {"final_error", "interrupt"}
    /\ NumUserTurns = 2
    /\ Len(turn_base) > 2
    /\ Len(conversation_history) > Len(turn_base) + 2

\* ------------------------------------------------------------------------
\* C7.  Tool-turn correspondence: every tool Turn answers exactly one request
\* of the assistant Turn before it (only tool Turns in between), and at the
\* input prompt every request of every assistant Turn has exactly one tool
\* Turn answering it.
\* ------------------------------------------------------------------------
\* the nearest Turn before i that is no tool Turn
Opener(i) ==
    CHOOSE a \in 1..(i - 1) :
        /\ conversation_history[a].role # "tool"
        /\ \A j \in (a + 1)..(i - 1) : conversation_history[j].role = "tool"

\* the tool Turns that follow the assistant Turn a directly and carry id
AnswersTo(a, id) ==
    {i \in (a + 1)..Len(conversation_history) :
        /\ \A j \in (a + 1)..i : conversation_history[j].role = "tool"
        /\ conversation_history[i].tool_call_id = id}

C7_ToolTurnCorrespondence ==
    /\ \A i \in 1..Len(conversation_history) :
          conversation_history[i].role = "tool" =>
             /\ conversation_history[Opener(i)].role = "assistant"
             /\ Cardinality({k \in 1..Len(ToolCallsOf(conversation_history[Opener(i)])) :
                   ToolCallsOf(conversation_history[Opener(i)])[k].id
                      = conversation_history[i].tool_call_id}) = 1
    /\ pc = "prompt" =>
          \A a \in 1..Len(conversation_history) :
             \A k \in 1..Len(ToolCallsOf(conversation_history[a])) :
                Cardinality(AnswersTo(a, ToolCallsOf(conversation_history[a])[k].id)) = 1

\* ------------------------------------------------------------------------
\* C8.  Endpoint failure leaves the transcript uncorrupted: a step in which a
\* model call fails (with tools or forced final answer) ends the turn with a
\* rendered text describing the failure and appends nothing to the transcript.
\* ------------------------------------------------------------------------
C8_FailureNotAppended ==
    [][ (pc \in {"model", "final"} /\ event' \in {"endpoint_error", "final_error"})
        => (/\ pc' = "prompt"
            /\ rendered' # <<>>
            /\ Last(rendered') \in {ERROR_OCCURRED, ERROR_FINAL}
            /\ conversation_history' = conversation_history) ]_vars

\* ------------------------------------------------------------------------
\* The marker lines as the specification of the segmenter defines them
\* ------------------------------------------------------------------------
\* trimmed, exactly BEGIN CODE, or BEGIN CODE and a parenthesized language tag
IsOpeningMarker(line) ==
    LET t == strip(line) IN
    /\ startswith(t, BEGIN_CODE)
    /\ LET rest == lstrip(Tail(t)) IN
       \/ rest = <<>>
       \/ /\ Len(rest) >= 2
          /\ Head(rest) = LPAREN
          /\ Last(rest) = RPAREN
          /\ \A i \in 2..(Len(rest) - 1) : rest[i] \notin {LPAREN, RPAREN}

IsClosingMarker(line) == strip(line) = <<END_CODE>>

\* the lines of a text without its marker lines
RECURSIVE ContentLines(_, _)
ContentLines(lines, in_code) ==
    IF lines = <<>> THEN <<>>
    ELSE IF ~in_code /\ IsOpeningMarker(Head(lines)) THEN ContentLines(Tail(lines), TRUE)
    ELSE IF in_code /\ IsClosingMarker(Head(lines)) THEN ContentLines(Tail(lines), FALSE)
    ELSE <<Head(lines)>> \o ContentLines(Tail(lines), in_code)

\* content.split("\n")
RECURSIVE SplitNL(_)
SplitNL(content) ==
    IF ~Contains(content, NL) THEN <<content>>
    ELSE <<BeforeFirst(content, NL)>> \o SplitNL(AfterFirst(content, NL))

\* the line sequences a sequence of Segments may stand for: an empty content
\* is read as no line or as one empty line
RECURSIVE SegmentLines(_)
SegmentLines(blocks) ==
    IF blocks = <<>> THEN { <<>> }
    ELSE LET content == Head(blocks)[2]
             own == IF content = <<>> THEN { <<>>, << <<>> >> } ELSE { SplitNL(content) }
         IN  { a \o r : a \in own, r \in SegmentLines(Tail(blocks)) }

\* ------------------------------------------------------------------------
\* C9.  Segmenter round-trip: the content lines of the Segments, in order,
\* are the lines of the input without its marker lines.
\* ------------------------------------------------------------------------
C9_RoundTrip == seg_done => ContentLines(seg_lines, FALSE) \in SegmentLines(seg_blocks)

\* ------------------------------------------------------------------------
\* C10.  Fence opening is an exact match: only a line that is an opening
\* marker opens a code run; every other line met outside a code run is
\* accumulated as prose.
\* ------------------------------------------------------------------------
C10_ExactOpening ==
    seg_done =>
       \A i \in 1..Len(seg_lines) :
          /\ seg_marks[i] = "open" => IsOpeningMarker(seg_lines[i])
          /\ (seg_marks[i] \in {"open", "prose"} /\ ~IsOpeningMarker(seg_lines[i]))
                => seg_marks[i] = "prose"

\* ------------------------------------------------------------------------
\* The code run the segmenter is in when the input ends
\* ------------------------------------------------------------------------
\* the segmenter opened a code run at line i and met no closing line after it
OpenAtEnd(i) ==
    /\ i \in 1..Len(seg_marks)
    /\ seg_marks[i] = "open"
    /\ \A j \in (i + 1)..Len(seg_marks) : seg_marks[j] = "code"

IsSegment(b) ==
    \/ b[1] = "text" /\ b[3] = <<>>
    \/ b[1] = "code" /\ b[3] # <<>>

\* ------------------------------------------------------------------------
\* C11.  Unterminated fence: the segmenter gives a result for every input, and
\* when the input ends inside a code run, the last Segment is a code Segment
\* whose content is the lines that follow the opening line, joined, and whose
\* language is the tag of that opening line.
\* ------------------------------------------------------------------------
C11_UnterminatedFence ==
    /\ \A k \in 1..Len(_split_text_into_blocks(seg_lines)) :
          IsSegment(_split_text_into_blocks(seg_lines)[k])
    /\ seg_done =>
          /\ seg_blocks = _split_text_into_blocks(seg_lines)
          /\ \A i \in 1..Len(seg_lines) :
                OpenAtEnd(i) =>
                   /\ seg_blocks # <<>>
                   /\ Last(seg_blocks) =
                         <<"code", Join(SubSeq(seg_lines, i + 1, Len(seg_lines))),
                           ParseLang(strip(seg_lines[i]))>>

\* prose, then an opening line with the tag py, then a code line, and the end
C11_Witness ==
    /\ seg_done
    /\ Len(seg_lines) = 3
    /\ seg_marks = <<"prose", "open", "code">>
    /\ Len(seg_blocks) = 2
    /\ seg_blocks[2][1] = "code"
    /\ seg_blocks[2][3] = <<"py">>
    /\ seg_blocks[2][2] # <<>>

\* ------------------------------------------------------------------------
\* C12.  Interrupts never cancel in-flight work: a keyboard interrupt that
\* arrives while a model call or a tool call is in flight leaves that call in
\* flight and the turn running (only at the input prompt does it abort, and
\* there only the pending input); so at the input prompt the turn has its
\* final answer and no request of its last batch is without a tool Turn.
\* ------------------------------------------------------------------------
C12_InterruptsNeverCancel ==
    [][ (event' = "interrupt" /\ pc \in {"model", "tools", "final"})
        => (/\ pc' = pc
            /\ tc' = tc
            /\ tool_calls' = tool_calls
            /\ conversation_history' = conversation_history) ]_vars

\* ------------------------------------------------------------------------
\* The end of a turn
\* ------------------------------------------------------------------------
InFlight == {"model", "tools", "final"}

\* some text, not the empty text, was rendered since the user message was read
SomeTextRendered == \E i \in 1..Len(rendered) : rendered[i] # EMPTY_TEXT

\* ------------------------------------------------------------------------
\* C13.  Every turn ends and the session survives it: when every call returns
\* or raises, a turn that has started comes back to the input prompt; when it
\* does, some text has been rendered for it; no step of a turn ends the
\* process; and the model calls of one turn are at most the ceiling's batches,
\* the call that follows them and the forced final call.
\* ------------------------------------------------------------------------
C13_EveryTurnEnds ==
    /\ (pc \in InFlight) ~> (pc = "prompt")
    /\ [][(pc \in InFlight /\ pc' = "prompt") => SomeTextRendered']_vars
    /\ [][(pc \in InFlight) => (pc' # "exited")]_vars
    /\ [](calls.tools + calls.final <= STEP_LIMIT + 2)

\* ------------------------------------------------------------------------
\* C14.  Non-empty final answer at the ceiling: when a turn has ended after
\* the step-ceiling notice, its closing assistant Turn and the last answer
\* hold the same text, and that text is not empty.
\* ------------------------------------------------------------------------
C14_NonEmptyFinalAtCeiling ==
    (/\ pc = "prompt"
     /\ Len(conversation_history) > 2
     /\ conversation_history[Len(conversation_history) - 1] =
           [role |-> "system", content |-> STEP_NOTICE]
     /\ Last(conversation_history).role = "assistant")
    => (/\ Last(conversation_history).content = last_answer_text
        /\ last_answer_text # EMPTY_TEXT)

\* ------------------------------------------------------------------------
\* The requests of an assistant Turn and the tool Turns behind it
\* ------------------------------------------------------------------------
\* the first n requests of the assistant Turn a are answered, in their order,
\* by the n Turns that follow it
Answered(a, n) ==
    /\ Len(conversation_history) >= a + n
    /\ \A k \in 1..n :
          /\ conversation_history[a + k].role = "tool"
          /\ conversation_history[a + k].tool_call_id = ToolCallsOf(conversation_history[a])[k].id

\* ------------------------------------------------------------------------
\* C15.  Strict sequential ordering of a tool batch: while the request tc of
\* a reply is dispatched, the transcript ends with the reply and the tool
\* Turns of the requests before tc, in the order requested, and nothing else;
\* the step that ends a dispatch appends the tool Turn of that request and
\* goes on to the next request, or leaves the batch only after the last one;
\* and while a model call is in flight, every request of the turn has its
\* tool Turn (no tool call is outstanding).
\* ------------------------------------------------------------------------
C15_SequentialBatch ==
    /\ [](pc = "tools" =>
            /\ tc \in 1..Len(tool_calls)
            /\ Len(conversation_history) - (tc - 1) \in TurnIndices
            /\ conversation_history[Len(conversation_history) - (tc - 1)].role = "assistant"
            /\ ToolCallsOf(conversation_history[Len(conversation_history) - (tc - 1)]) = tool_calls
            /\ Answered(Len(conversation_history) - (tc - 1), tc - 1))
    /\ [](pc \in {"model", "final"} =>
            \A a \in TurnIndices :
               conversation_history[a].role = "assistant" =>
                  Answered(a, Len(ToolCallsOf(conversation_history[a]))))
    /\ [][(pc = "tools" /\ conversation_history' # conversation_history) =>
            (/\ conversation_history'[Len(conversation_history) + 1].role = "tool"
             /\ conversation_history'[Len(conversation_history) + 1].tool_call_id
                   = tool_calls[tc].id
             /\ (pc' = "tools" => (tc' = tc + 1 /\ tool_calls' = tool_calls))
             /\ (pc' # "tools" => tc = Len(tool_calls)))]_vars

\* the second request of a reply is dispatched, the first has its tool Turn
C15_Witness ==
    /\ pc = "tools"
    /\ Len(tool_calls) = 2
    /\ tc = 2
    /\ Last(conversation_history).role = "tool"
    /\ Last(conversation_history).tool_call_id = tool_calls[1].id
    /\ step_count > 0

\* ------------------------------------------------------------------------
\* The dispatch of the request in flight
\* ------------------------------------------------------------------------
\* the tool Turn run_tool_call gives for request when the outside answers world
DispatchOf(request, world) ==
    run_tool_call(request, tool_counts, collected_sources, collected_seen,
                  _SEARCH_CACHE, _FETCH_CACHE, ext_ops, world).msg

\* request with an empty argument set for its arguments
WithNoArguments(request) ==
    [request EXCEPT !.function.arguments = JsonObj(<<>>)]

\* ------------------------------------------------------------------------
\* C16.  Tool failures are local: whatever the tool name and the argument
\* payload of the request in flight, and whatever the outside answers,
\* run_tool_call gives one tool Turn with the request's identifier, the tool
\* name and a string result; unparseable arguments give what the empty
\* argument set gives; and the step that ends the dispatch appends that one
\* tool Turn and leaves the turn running.
\* ------------------------------------------------------------------------
C16_ToolFailuresLocal ==
    /\ [](pc = "tools" =>
            \A world \in World(tool_calls[tc].function.name) :
               /\ DOMAIN DispatchOf(tool_calls[tc], world)
                     = {"tool_call_id", "role", "name", "content"}
               /\ DispatchOf(tool_calls[tc], world).role = "tool"
               /\ DispatchOf(tool_calls[tc], world).tool_call_id = tool_calls[tc].id
               /\ DispatchOf(tool_calls[tc], world).name = tool_calls[tc].function.name
               /\ DispatchOf(tool_calls[tc], world).content.kind \in {"message", "search", "fetch"}
               /\ tool_calls[tc].function.arguments.kind = "bad" =>
                     DispatchOf(tool_calls[tc], world)
                        = DispatchOf(WithNoArguments(tool_calls[tc]), world))
    /\ [][(pc = "tools" /\ conversation_history' # conversation_history) =>
            (/\ \E world \in World(tool_calls[tc].function.name) :
                   conversation_history'[Len(conversation_history) + 1]
                      = DispatchOf(tool_calls[tc], world)
             /\ \A i \in (Len(conversation_history) + 2)..Len(conversation_history') :
                   conversation_history'[i].role # "tool"
             /\ pc' \in InFlight)]_vars

\* requests with unparseable arguments, with an array for arguments and to an
\* unregistered tool have been answered with their errors
C16_Witness ==
    /\ \E i \in TurnIndices :
          /\ conversation_history[i].role = "tool"
          /\ conversation_history[i].content = Message("Error calling", "web_search")
          /\ RequestOf(conversation_history[i].tool_call_id).function.arguments.kind = "bad"
    /\ \E i \in TurnIndices :
          /\ conversation_history[i].role = "tool"
          /\ conversation_history[i].content = Message("Error calling", "fetch_url")
          /\ RequestOf(conversation_history[i].tool_call_id).function.arguments.kind = "list"
    /\ \E i \in TurnIndices :
          /\ conversation_history[i].role = "tool"
          /\ conversation_history[i].content = Message("Error: unknown tool", "shell")

\* ------------------------------------------------------------------------
\* The cache entry a request is served from
\* ------------------------------------------------------------------------
\* the request binds to web_search or fetch_url with an integer second argument
Cacheable(request) ==
    LET name == request.function.name
        args == ParseArgs(request.function.arguments)
    IN  /\ name \in {"web_search", "fetch_url"}
        /\ args.kind = "obj"
        /\ (IF name = "web_search" THEN {"query"} ELSE {"url"}) \subseteq DOMAIN args.val
        /\ DOMAIN args.val \subseteq
              (IF name = "web_search" THEN {"query", "max_results"} ELSE {"url", "max_chars"})
        /\ \A k \in DOMAIN args.val \cap {"max_results", "max_chars"} : args.val[k][1] = "int"

\* (query, max_results) or (url, max_chars), with the defaults 5 and 4000
CacheKey(request) ==
    LET o == ParseArgs(request.function.arguments).val IN
    IF request.function.name = "web_search"
    THEN <<o.query, IF "max_results" \in DOMAIN o THEN o.max_results[2] ELSE DEFAULT_MAX_RESULTS>>
    ELSE <<o.url, IF "max_chars" \in DOMAIN o THEN o.max_chars[2] ELSE DEFAULT_MAX_CHARS>>

CacheOf(request) ==
    IF request.function.name = "web_search" THEN _SEARCH_CACHE ELSE _FETCH_CACHE

Keeps(cache, cache_) == \A k \in DOMAIN cache : k \in DOMAIN cache_ /\ cache_[k] = cache[k]

\* ------------------------------------------------------------------------
\* C17.  Per-turn versus process-lifetime state: the step that begins a user
\* turn sets every budget counter to zero and empties the SourceList and its
\* companion set; every other step leaves each counter as it is or greater;
\* no step removes or changes a cache entry; and a request whose key is in
\* the cache is answered with the cached result and no external operation,
\* in whatever turn the entry was made.
\* ------------------------------------------------------------------------
C17_TurnAndLifetimeState ==
    /\ [][(pc = "prompt" /\ pc' = "model") =>
            (/\ \A name \in DOMAIN tool_counts' : tool_counts'[name] = 0
             /\ DOMAIN budgets \subseteq DOMAIN tool_counts'
             /\ collected_sources' = <<>>
             /\ collected_seen' = {})]_vars
    /\ [][(pc # "prompt") =>
            (\A name \in DOMAIN tool_counts :
                name \in DOMAIN tool_counts' /\ tool_counts'[name] >= tool_counts[name])]_vars
    /\ [][Keeps(_SEARCH_CACHE, _SEARCH_CACHE') /\ Keeps(_FETCH_CACHE, _FETCH_CACHE')]_vars
    /\ [][(/\ pc = "tools"
           /\ conversation_history' # conversation_history
           /\ Cacheable(tool_calls[tc])
           /\ tool_counts[tool_calls[tc].function.name] < budgets[tool_calls[tc].function.name]
           /\ CacheKey(tool_calls[tc]) \in DOMAIN CacheOf(tool_calls[tc])) =>
            (/\ conversation_history'[Len(conversation_history) + 1].content
                   = CacheOf(tool_calls[tc])[CacheKey(tool_calls[tc])]
             /\ ext_ops' = ext_ops)]_vars

\* in the second turn, with the counters of the first turn reset, a page
\* fetched in the first turn has been served again without a second fetch
C17_Witness ==
    /\ NumUserTurns = 2
    /\ tool_counts["fetch_url"] = 1
    /\ tool_counts["web_search"] = 0
    /\ Last(conversation_history).role = "tool"
    /\ Last(conversation_history).name = "fetch_url"
    /\ Last(conversation_history).content.kind = "fetch"
    /\ \E i \in 1..Len(turn_base) :
          /\ conversation_history[i].role = "tool"
          /\ conversation_history[i].name = "web_search"
          /\ conversation_history[i].content.kind = "search"
    /\ \E i \in 1..Len(turn_base) :
          /\ conversation_history[i].role = "tool"
          /\ conversation_history[i].content = Last(conversation_history).content
    /\ \A op \in DOMAIN ext_ops : ext_ops[op] = 1

\* ------------------------------------------------------------------------
\* The calls of the current turn that repeat a call
\* ------------------------------------------------------------------------
\* the tool Turns of the current turn that report a call, not refused, of the
\* tool and with the arguments of the tool Turn i
SameCallInTurn(i) ==
    {j \in TurnIndices \cap ToolInvocations :
        /\ conversation_history[j].name = conversation_history[i].name
        /\ SameArguments(ArgumentsOf(j), ArgumentsOf(i))}

\* ------------------------------------------------------------------------
\* C18.  A cache hit still consumes budget: the dispatch of a request to a
\* budgeted tool, not refused, whose key is in the cache, adds one to the
\* tool's counter as a dispatch whose key is not in the cache does; so once a
\* call has been made limit times in a turn, every later request of the turn
\* to that tool is refused, and the external operation behind the call was
\* performed at most once.
\* ------------------------------------------------------------------------
C18_CacheHitConsumesBudget ==
    /\ [][(/\ pc = "tools"
           /\ conversation_history' # conversation_history
           /\ Cacheable(tool_calls[tc])
           /\ tool_counts[tool_calls[tc].function.name] < budgets[tool_calls[tc].function.name]) =>
            (tool_counts'[tool_calls[tc].function.name]
                = tool_counts[tool_calls[tc].function.name] + 1)]_vars
    /\ [](\A i \in TurnIndices \cap ToolInvocations :
            (/\ Cacheable(RequestOf(conversation_history[i].tool_call_id))
             /\ Cardinality(SameCallInTurn(i)) >= budgets[conversation_history[i].name]) =>
               (/\ tool_counts[conversation_history[i].name] >= budgets[conversation_history[i].name]
                /\ \A j \in TurnIndices :
                      (/\ \A m \in SameCallInTurn(i) : j > m
                       /\ conversation_history[j].role = "tool"
                       /\ conversation_history[j].name = conversation_history[i].name)
                      => IsRefusal(conversation_history[j])
                /\ ext_ops[<<conversation_history[i].name, ArgumentsOf(i).val>>] <= 1))

\* the same search was requested three times in a turn: one search was made,
\* the second request was served from the cache, the third was refused
C18_Witness ==
    /\ event = "refused"
    /\ Last(conversation_history).role = "tool"
    /\ Last(conversation_history).content = Message("Budget exceeded", "web_search")
    /\ Cardinality({j \in TurnIndices :
                       /\ conversation_history[j].role = "tool"
                       /\ conversation_history[j].content.kind = "search"}) = WEB_SEARCH_LIMIT
    /\ \A op \in DOMAIN ext_ops : ext_ops[op] = 1
    /\ Cardinality(DOMAIN ext_ops) = 1
    /\ NumUserTurns = 1

\* ------------------------------------------------------------------------
\* C19.  File-creation results are cached: of the create_file dispatches of a
\* session with the same filename and content, only the first writes the
\* file, and the later ones return the result of the first.
\* ------------------------------------------------------------------------
C19_CreateFileCached ==
    /\ \A op \in DOMAIN ext_ops : op[1] = "create_file" => ext_ops[op] <= 1
    /\ \A i, j \in ToolInvocations :
          (/\ i < j
           /\ conversation_history[i].name = "create_file"
           /\ conversation_history[j].name = "create_file"
           /\ ArgumentsOf(i).kind = "obj"
           /\ SameArguments(ArgumentsOf(i), ArgumentsOf(j)))
          => conversation_history[j].content = conversation_history[i].content

\* ------------------------------------------------------------------------
\* C20.  Degenerate reply forces exactly one tool-less final call: the step
\* in which a reply with no tool request and no text arrives issues one
\* forced final call (its request: the transcript and the directive, without
\* the tool schemas); while it is in flight no other call is issued; when it
\* returns, its output is appended as the closing assistant Turn and is the
\* last answer, and the turn ends; the directive is never in the transcript;
\* and a turn issues at most one forced final call.
\* ------------------------------------------------------------------------
C20_OneForcedFinalCall ==
    /\ [][(/\ pc = "model"
           /\ Len(conversation_history') = Len(conversation_history) + 1
           /\ Last(conversation_history').role = "assistant"
           /\ ToolCallsOf(Last(conversation_history')) = <<>>
           /\ Last(conversation_history').content = EMPTY_TEXT) =>
            (/\ pc' = "final"
             /\ calls'.final = calls.final + 1
             /\ calls'.tools = calls.tools
             /\ calls'.request =
                   [messages |-> Append(conversation_history',
                                        [role |-> "system", content |-> FINAL_DIRECTIVE]),
                    tools |-> FALSE])]_vars
    /\ [][(pc = "final" /\ conversation_history' # conversation_history) =>
            (/\ pc' = "prompt"
             /\ calls' = calls
             /\ conversation_history' =
                   Append(conversation_history,
                          [role |-> "assistant", content |-> last_answer_text'])
             /\ Last(rendered') = last_answer_text')]_vars
    /\ [][(pc = "final") => (calls' = calls /\ pc' = "prompt")]_vars
    /\ [](pc = "final" =>
            (/\ ~calls.request.tools
             /\ calls.request.messages =
                   Append(conversation_history, [role |-> "system", content |-> FINAL_DIRECTIVE])))
    /\ [](\A i \in 1..Len(conversation_history) :
             conversation_history[i].role = "system" =>
                conversation_history[i].content # FINAL_DIRECTIVE)
    /\ [](calls.final <= 1)

\* a turn ended with the forced answer to a reply that had neither tool
\* requests nor text, after a batch of tool requests
C20_Witness ==
    /\ pc = "prompt"
    /\ event = "final_ok"
    /\ calls.final = 1
    /\ calls.tools = 2
    /\ Len(conversation_history) > 3
    /\ conversation_history[Len(conversation_history) - 1] =
          [role |-> "assistant", content |-> EMPTY_TEXT]
    /\ Last(conversation_history).role = "assistant"
    /\ Last(conversation_history).content # EMPTY_TEXT
    /\ conversation_history[Len(conversation_history) - 2].role = "tool"

\* ------------------------------------------------------------------------
\* C21.  Interactive commands do not re-enter the loop: the step that handles
\* a command, the empty input line or quit issues no model call and
\* dispatches no tool request, and leaves the transcript, the budget
\* counters, the SourceList, the caches and the last answer's text, sources
\* and code blocks as they were; the always-show-sources flag changes only
\* by the sources toggle.
\* ------------------------------------------------------------------------
C21_CommandsStayAtPrompt ==
    [][(pc = "prompt" /\ event' \in {"command", "quit", "prompt_interrupt"}) =>
         (/\ pc' \in {"prompt", "exited"}
          /\ calls' = calls
          /\ conversation_history' = conversation_history
          /\ tool_counts' = tool_counts
          /\ step_count' = step_count
          /\ tool_calls' = tool_calls /\ tc' = tc
          /\ collected_sources' = collected_sources
          /\ collected_seen' = collected_seen
          /\ _SEARCH_CACHE' = _SEARCH_CACHE
          /\ _FETCH_CACHE' = _FETCH_CACHE
          /\ ext_ops' = ext_ops
          /\ last_answer_text' = last_answer_text
          /\ last_answer_sources' = last_answer_sources
          /\ last_code_blocks' = last_code_blocks
          /\ (AIKA_ALWAYS_SHOW_SOURCES' # AIKA_ALWAYS_SHOW_SOURCES =>
                rendered' = IF AIKA_ALWAYS_SHOW_SOURCES'
                            THEN Say(<< <<"Sources: ON">> >>)
                            ELSE Say(<< <<"Sources: OFF">> >>)))]_vars

\* after a turn that fetched a page and ended with an answer holding a code
\* block, that block has been copied
C21_Witness ==
    /\ pc = "prompt"
    /\ event = "command"
    /\ rendered = Say(<< <<"Copied to clipboard.">> >>)
    /\ last_code_blocks # <<>>
    /\ last_answer_sources # <<>>
    /\ Len(conversation_history) > 3
    /\ Last(conversation_history).role = "assistant"

\* ------------------------------------------------------------------------
\* The calls of the current turn that completed
\* ------------------------------------------------------------------------
\* the tool Turns of the current turn that hold a result of the tool name
\* (the payload of a search or of a fetch, or the message of create_file)
CompletedInTurn(name) ==
    {i \in TurnIndices :
        /\ conversation_history[i].role = "tool"
        /\ conversation_history[i].name = name
        /\ \/ conversation_history[i].content.kind \in {"search", "fetch"}
           \/ /\ conversation_history[i].content.kind = "message"
              /\ conversation_history[i].content.what
                    \in {"Successfully created the file", "Error creating file"}}

\* ------------------------------------------------------------------------
\* C22.  Budget ceiling invariant: the count of each budgeted tool is between
\* 0 and its limit, and so is the number of calls of web_search and of
\* fetch_url that completed in the current turn; create_file has no budget,
\* and no request to it is refused.
\* ------------------------------------------------------------------------
C22_BudgetCeiling ==
    /\ DOMAIN budgets = {"web_search", "fetch_url"}
    /\ \A name \in DOMAIN budgets :
          /\ 0 <= tool_counts[name]
          /\ tool_counts[name] <= budgets[name]
          /\ Cardinality(CompletedInTurn(name)) <= budgets[name]
    /\ \A i \in 1..Len(conversation_history) :
          (conversation_history[i].role = "tool" /\ conversation_history[i].name = "create_file")
             => ~IsRefusal(conversation_history[i])

\* a turn in which fetch_url reached its limit and was then refused, and a
\* file was created
C22_Witness ==
    /\ tool_counts["fetch_url"] = FETCH_URL_LIMIT
    /\ Cardinality(CompletedInTurn("fetch_url")) = FETCH_URL_LIMIT
    /\ \E i \in TurnIndices :
          /\ IsRefusal(conversation_history[i])
          /\ conversation_history[i].name = "fetch_url"
    /\ Cardinality(CompletedInTurn("create_file")) = 1

\* ------------------------------------------------------------------------
\* C23.  SourceList and its companion set stay in step: the companion set is
\* the set of the elements of the SourceList, the SourceList holds no URL
\* twice, and every step of a turn leaves the SourceList as it was or with
\* URLs appended at its end.
\* ------------------------------------------------------------------------
C23_SourcesInStep ==
    /\ [](collected_seen = {collected_sources[i] : i \in 1..Len(collected_sources)})
    /\ [](Cardinality(collected_seen) = Len(collected_sources))
    /\ [][(pc # "prompt") => IsPrefix(collected_sources, collected_sources')]_vars

\* a search whose results repeat a URL and a fetch of another page have both
\* added to the SourceList
C23_Witness ==
    /\ Len(collected_sources) = 3
    /\ collected_sources[1] = U1
    /\ collected_sources[2] = URL_PLAIN
    /\ collected_sources[3] = U8
    /\ Last(conversation_history).role = "tool"
    /\ Last(conversation_history).name = "fetch_url"

\* ------------------------------------------------------------------------
\* C24.  Turn closure: when a turn has just completed with a plain answer or
\* with a forced final answer, the last Turn of the transcript is an
\* assistant Turn without tool requests whose content is the last answer
\* text; and a step-ceiling notice in the turn stands right after a tool Turn
\* and right before that closing assistant Turn.
\* ------------------------------------------------------------------------
C24_TurnClosure ==
    (pc = "prompt" /\ event \in {"reply_text", "final_ok", "final_error"}) =>
       (/\ Last(conversation_history).role = "assistant"
        /\ ToolCallsOf(Last(conversation_history)) = <<>>
        /\ Last(conversation_history).content = last_answer_text
        /\ \A i \in TurnIndices :
              conversation_history[i] = [role |-> "system", content |-> STEP_NOTICE] =>
                 (/\ i = Len(conversation_history) - 1
                  /\ conversation_history[i - 1].role = "tool"))

\* ------------------------------------------------------------------------
\* The Segments and the lines they were made of
\* ------------------------------------------------------------------------
\* the contents of the prose Segments, in order
RECURSIVE TextContents(_)
TextContents(blocks) ==
    IF blocks = <<>> THEN <<>>
    ELSE IF Head(blocks)[1] = "text"
         THEN <<Head(blocks)[2]>> \o TextContents(Tail(blocks))
         ELSE TextContents(Tail(blocks))

\* the lines at which a run of prose lines begins
ProseRunStarts ==
    {i \in 1..Len(seg_marks) :
        seg_marks[i] = "prose" /\ (i = 1 \/ seg_marks[i - 1] # "prose")}

\* the lines recognised as fence openings
Openings == {i \in 1..Len(seg_marks) : seg_marks[i] = "open"}

Max(S) == CHOOSE m \in S : \A x \in S : x <= m

\* ------------------------------------------------------------------------
\* C25.  Segment shape: no two prose Segments are adjacent; there is one
\* prose Segment for each run of prose lines, holding the lines of the run
\* (at least one); there is one code Segment for each line recognised as a
\* fence opening; every line met inside a code run, a BEGIN CODE line
\* included, is a line of that run's code Segment as it stands; and every
\* line met outside a code run that opens none, an END CODE line included, is
\* a line of its prose Segment as it stands.
\* ------------------------------------------------------------------------
C25_SegmentShape ==
    seg_done =>
       /\ \A k \in 1..(Len(seg_blocks) - 1) :
             ~(seg_blocks[k][1] = "text" /\ seg_blocks[k + 1][1] = "text")
       /\ Len(TextContents(seg_blocks)) = Cardinality(ProseRunStarts)
       /\ Len(CodeContents(seg_blocks)) = Cardinality(Openings)
       /\ \A i \in 1..Len(seg_lines) :
             /\ seg_marks[i] = "code" =>
                   LET o == Max({j \in Openings : j < i})
                       lines == SplitNL(CodeContents(seg_blocks)
                                           [Cardinality({j \in Openings : j < i})])
                   IN  Len(lines) >= i - o /\ lines[i - o] = seg_lines[i]
             /\ seg_marks[i] = "prose" =>
                   LET s == Max({j \in ProseRunStarts : j <= i})
                       lines == SplitNL(TextContents(seg_blocks)
                                           [Cardinality({j \in ProseRunStarts : j <= i})])
                   IN  Len(lines) >= i - s + 1 /\ lines[i - s + 1] = seg_lines[i]

\* an END CODE line before any opening, then a code run that holds a BEGIN
\* CODE line and is closed
C25_Witness ==
    /\ seg_done
    /\ seg_marks = <<"prose", "open", "code", "close">>
    /\ strip(seg_lines[1]) = <<END_CODE>>
    /\ strip(seg_lines[3]) = <<BEGIN_CODE>>
    /\ Len(seg_blocks) = 2
    /\ seg_blocks[1] = <<"text", seg_lines[1], <<>>>>
    /\ seg_blocks[2][1] = "code"
    /\ seg_blocks[2][2] = seg_lines[3]

====
